---- MODULE Spec2Model ----
(***************************************************************************)
(* Checkpointed, concurrent, resumable fetch-and-transform pipelines of    *)
(* the repository:                                                         *)
(*   - wget_ftp_gb_asm.py : the parallel FTP genome downloader (worker     *)
(*     threads fetch and decompress, the main thread records the results   *)
(*     in latest_checkpoint.json);                                         *)
(*   - concat_fasta.py    : the FASTA concatenator (every worker thread    *)
(*     reads, updates and rewrites the checkpoint file itself);            *)
(*   - dwnld_nt_acc_entrez.py : the parallel efetch downloader (no         *)
(*     checkpoint; every worker thread writes one FASTA file);             *)
(*   - nuccore2asm_acc.py : the accession converter (every worker thread   *)
(*     runs the Entrez query of one accession in a bounded retry loop);    *)
(*   - get_FSlink.py : the sequence-id extractor (the main thread drains   *)
(*     one generator of (file_id, seq_id) pairs per FASTA file);           *)
(*   - concat_clean_fasta.py : chunk_fasta_content, the generator that     *)
(*     cuts the combined FASTA text into chunks.                           *)
(* The variable prog says which script a behaviour runs; the variables of  *)
(* the other script keep their initial values.                             *)
(***************************************************************************)
EXTENDS Integers, Sequences, FiniteSets, TLC

\* ------------------------------------------------------------------ bounds
NumKeys == 2
MaxItems == 2
MaxWorkers == 2
MaxRuns == 2

Keys == 1..NumKeys

VARIABLES
    prog,                     \* "wget_ftp_gb_asm" | "concat_fasta" | "dwnld_nt_acc_entrez"
                              \* | "nuccore2asm_acc" | "get_FSlink"
                              \* | "concat_clean_fasta"
    \* ---- wget_ftp_gb_asm.py
    ckpt_file,                \* latest_checkpoint.json on disk
    checkpoint_data,          \* main(): the in-memory checkpoint
    full_paths,               \* main(): the paths derived from the FTP list
    decompress,               \* main(): args.decompress of the current run
    max_workers,              \* main(): args.threads
    pending_paths,            \* main(): determine_pending_jobs(...)
    task,                     \* one future per entry of pending_paths
    mpc,                      \* main(): position of the main thread
    cur,                      \* main(): the future whose result is being recorded
    collected,                \* main(): futures already yielded by as_completed
    successful_downloads,
    successful_decompressions,
    progress,                 \* progress_bar.n
    gz,                       \* local file <outdir>/<basename>.gz of each path
    fna,                      \* local decompressed file of each path
    run,                      \* number of runs started so far
    \* ---- history of the downloader (not program state)
    last_good,                \* jobs of the last completely written checkpoint
    validated,                \* paths whose fetch passed the download verification
    flush_from,               \* during a flush: the file as the flush found it
    \* ---- concat_fasta.py
    cf_checkpoint_file,       \* concat_fasta_checkpoint_<output>.json on disk
    cf_output_file,           \* per input file: how often its sequences were appended
    fasta_files,              \* main(): the input files found
    cf_max_workers,           \* main(): args.max_workers
    cf_task,                  \* one concat_fasta future per input file
    cf_mpc,                   \* main(): position of the main thread
    cf_collected,             \* main(): futures already yielded by as_completed
    successful_files,
    failed_files,
    cf_run,                   \* number of runs started so far
    \* ---- history of the concatenator (not program state)
    cf_at_start,              \* the files the checkpoint showed when the run started
    \* ---- dwnld_nt_acc_entrez.py
    accessions,               \* main(): read_accessions(args.input)
    ez_file,                  \* <output>/<accession>.fasta of each accession
    ez_task,                  \* one download_sequence future per accession
    ez_mpc,                   \* main(): position of the main thread
    ez_collected,             \* main(): futures already yielded by as_completed
    ez_successful_downloads,  \* main(): successful_downloads
    failed_accessions,
    \* ---- nuccore2asm_acc.py
    nuccore_accs,             \* main(): read_accessions(args.input)
    na_task,                  \* one get_assembly_accession future per entry
    na_mpc,                   \* main(): position of the main thread
    na_collected,             \* main(): futures already yielded by as_completed
    results,                  \* main(): the nt_acc of the entries of results
    na_progress,              \* progress_bar.n
    \* ---- input property of the converter (not program state)
    na_malformed,             \* accessions that break the shell command line
    \* ---- history of the converter (not program state)
    na_row_future,            \* per entry of results: the future whose tuple it holds
    \* ---- get_FSlink.py
    fl_fasta_files,           \* process_fasta_files(): fasta_files, with their contents
    fl_future,                \* one extract_ids_from_fasta future per file
    fl_mpc,                   \* main(): position of the main thread
    fl_cur,                   \* the file whose generator the main thread drains (0: none)
    fl_pos,                   \* header lines that generator has yielded
    fl_rows,                  \* the (file_id, seq_id) rows written to the CSV
    total_ids,                \* main(): total_ids
    fl_pbar,                  \* process_fasta_files(): pbar.n
    fl_collected,             \* futures already yielded by as_completed
    fl_errors,                \* files named in an "Error processing" log line
    \* ---- concat_clean_fasta.py, chunk_fasta_content
    cc_content,               \* content
    chunk_size,               \* chunk_size
    cc_start,                 \* start
    cc_chunks,                \* the chunks yielded so far, each with its start
    cc_pc                     \* position of the generator

dl_vars == <<ckpt_file, checkpoint_data, full_paths, decompress, max_workers,
             pending_paths, task, mpc, cur, collected, successful_downloads,
             successful_decompressions, progress, gz, fna, run, last_good,
             validated, flush_from>>

cf_vars == <<cf_checkpoint_file, cf_output_file, fasta_files, cf_max_workers, cf_task,
             cf_mpc, cf_collected, successful_files, failed_files, cf_run, cf_at_start>>

ez_vars == <<accessions, ez_file, ez_task, ez_mpc, ez_collected,
             ez_successful_downloads, failed_accessions>>

na_vars == <<nuccore_accs, na_task, na_mpc, na_collected, results, na_progress,
             na_malformed, na_row_future>>

fl_vars == <<fl_fasta_files, fl_future, fl_mpc, fl_cur, fl_pos, fl_rows, total_ids,
             fl_pbar, fl_collected, fl_errors>>

cc_vars == <<cc_content, chunk_size, cc_start, cc_chunks, cc_pc>>

\* ------------------------------------------------------- checkpoint records
\* A job record of the checkpoint: {'status', 'ftp_path', 'local_path'?, 'error'?}.
\* ftp_path is the key itself; local_path is "gz" (the downloaded file), "fna"
\* (the decompressed file) or "none" (no such field); status "absent" stands for
\* a key that is not in the mapping.
JobRec(s, l) == [status |-> s, local_path |-> l]
Absent == JobRec("absent", "none")
NoJobs == [k \in Keys |-> Absent]

\* File contents: missing, corrupt (unparseable: truncated or garbage), noshape
\* (valid JSON without the 'jobs' mapping), badjobs (valid JSON whose 'jobs' is a
\* list or a string: 'path not in jobs' can be evaluated, jobs.get cannot) or ok
\* (a complete checkpoint).
File(kind, jobs) == [kind |-> kind, jobs |-> jobs]

\* load_checkpoint: a missing file and a JSONDecodeError/IOError give the default
\* structure; any other parsed JSON value is returned as it is.
load_checkpoint(f) ==
    CASE f.kind = "missing" -> File("ok", NoJobs)
      [] f.kind = "corrupt" -> File("ok", NoJobs)
      [] OTHER -> f

\* The terminal-success status of a mode.
TerminalStatus(d) == IF d THEN "decompress_success" ELSE "download_success"

\* A determine_pending_jobs that ignores the mode and always tests for
\* download_success.
IsPending_ModeBlind(jobs, path, d) ==
    \/ jobs[path].status = "absent"
    \/ jobs[path].status # "download_success"

\* determine_pending_jobs, per path: pending unless the record shows the mode's
\* success status.
IsPending(jobs, path, d) ==
    \/ jobs[path].status = "absent"
    \/ IF d THEN jobs[path].status # "decompress_success"
            ELSE jobs[path].status # "download_success"

RECURSIVE FilterPending(_, _, _)
FilterPending(paths, jobs, d) ==
    IF paths = <<>> THEN <<>>
    ELSE (IF IsPending(jobs, Head(paths), d) THEN <<Head(paths)>> ELSE <<>>)
         \o FilterPending(Tail(paths), jobs, d)

determine_pending_jobs(paths, data, d) == FilterPending(paths, data.jobs, d)

\* A download decision that keeps the earlier download after a failed
\* decompression.
NeedsDownload_KeepFetched(existing) ==
    \/ existing.status = "absent"
    \/ existing.status \in {"download_failed", "unexpected_error"}

\* A download decision that fetches again whatever is not recorded as
\* download_success, a decompressed item included.
NeedsDownload_UnlessDownloaded(existing) ==
    existing.status # "download_success"

\* download_and_process_file, line 140: is a download needed?
NeedsDownload(existing) ==
    \/ existing.status = "absent"
    \/ existing.status \in {"download_failed", "decompress_failed", "unexpected_error"}

\* A verification that only tests that the file exists, and one that tests nothing.
DownloadVerified_ExistsOnly(filestate) == filestate # "absent"
DownloadVerified_Unchecked(filestate) == TRUE

\* download_and_process_file, line 170: the verification of the downloaded file.
DownloadVerified(filestate) == filestate \notin {"absent", "empty"}

\* ------------------------------------------------------------------- tasks
\* A download_and_process_file call: its position, its local variables
\* existing_job and job_result (aliased: job_result is the dict stored in
\* checkpoint_data), and whether its wget exited with status 0.
Task(pc, existing, aliased, result) ==
    [pc |-> pc, existing |-> existing, aliased |-> aliased, result |-> result,
     wget_rc0 |-> FALSE, timed_out |-> FALSE]

Tasks == DOMAIN task
PoolAlive == mpc \in {"collect", "dump", "count"}

\* A pool that counts a worker as busy only while its wget runs.
Running_FetchOnly == {i \in Tasks : task[i].pc = "wget"}

\* The calls that occupy a worker thread of the executor (line 290).
Running == {i \in Tasks : task[i].pc \in {"wget", "verify", "pigz"}}

\* The value of the dict a task returns: the dict stored in checkpoint_data when
\* job_result is that very object, the task's own dict otherwise.
ResultOf(i) ==
    IF task[i].aliased THEN checkpoint_data.jobs[pending_paths[i]]
    ELSE task[i].result


\* ------------------------------------------------- download_and_process_file
\* Lines 136-153 (and 184-198 when no download is needed): the worker thread picks
\* the task up, reads the existing record and launches the first subprocess.
\* launch = FALSE: os.makedirs or subprocess.run raises something other than
\* CalledProcessError before the command ran (lines 226-232). Line 136 is outside
\* the try block: when checkpoint_data['jobs'] has no get, the call raises and the
\* future holds the exception.
StartTask(i, launch) ==
    /\ prog = "wget_ftp_gb_asm"
    /\ PoolAlive
    /\ task[i].pc = "queued"
    /\ Cardinality(Running) < max_workers
    /\ LET path == pending_paths[i]
           existing == checkpoint_data.jobs[path]
       IN IF checkpoint_data.kind = "badjobs"
          THEN /\ launch
               /\ task' = [task EXCEPT ![i] = Task("raised", Absent, FALSE, Absent)]
               /\ UNCHANGED gz
          ELSE
          IF NeedsDownload(existing)
          THEN IF launch
               THEN /\ task' = [task EXCEPT ![i] = Task("wget", existing, FALSE, Absent)]
                    /\ gz' = [gz EXCEPT ![path] = "partial"]
               ELSE /\ task' = [task EXCEPT ![i] =
                            Task("done", existing, FALSE, JobRec("unexpected_error", "none"))]
                    /\ UNCHANGED gz
          ELSE /\ UNCHANGED gz
               /\ IF decompress /\ existing.local_path = "gz"
                     /\ existing.status # "decompress_success"
                  THEN IF launch
                       THEN task' = [task EXCEPT ![i] = Task("pigz", existing, TRUE, Absent)]
                       ELSE task' = [task EXCEPT ![i] =
                               Task("done", existing, FALSE, JobRec("unexpected_error", "none"))]
                  ELSE /\ launch
                       /\ task' = [task EXCEPT ![i] = Task("done", existing, TRUE, Absent)]
    /\ UNCHANGED flush_from
    /\ UNCHANGED <<prog, fl_vars, cc_vars, cf_vars, ez_vars, na_vars, ckpt_file, checkpoint_data, full_paths, decompress, max_workers,
                   pending_paths, mpc, cur, collected, successful_downloads,
                   successful_decompressions, progress, fna, run, last_good, validated>>

\* Lines 148-167: wget returns. rc0 = TRUE: exit status 0, the destination holds
\* what the server sent (left: "full" or "empty"); rc0 = FALSE: CalledProcessError
\* (a wget error, or with timed_out exit 124 of 'timeout 120'), the destination
\* is left empty or partial. Either way the task returns download_failed.
WgetExit(i, rc0, timed_out, left) ==
    /\ prog = "wget_ftp_gb_asm"
    /\ PoolAlive
    /\ task[i].pc = "wget"
    /\ timed_out => ~rc0
    /\ left \in (IF rc0 THEN {"full", "empty"} ELSE {"partial", "empty"})
    /\ gz' = [gz EXCEPT ![pending_paths[i]] = left]
    /\ task' = [task EXCEPT ![i] =
                    IF rc0 THEN [@ EXCEPT !.pc = "verify", !.wget_rc0 = TRUE]
                    ELSE [@ EXCEPT !.pc = "done", !.timed_out = timed_out,
                                   !.result = JobRec("download_failed", "none")]]
    /\ UNCHANGED flush_from
    /\ UNCHANGED <<prog, fl_vars, cc_vars, cf_vars, ez_vars, na_vars, ckpt_file, checkpoint_data, full_paths, decompress, max_workers,
                   pending_paths, mpc, cur, collected, successful_downloads,
                   successful_decompressions, progress, fna, run, last_good, validated>>

\* Lines 169-198: the download is verified; then, in decompress mode, pigz is
\* launched on the downloaded file (every path ends in .gz, line 275).
VerifyDownload(i) ==
    /\ prog = "wget_ftp_gb_asm"
    /\ PoolAlive
    /\ task[i].pc = "verify"
    /\ LET path == pending_paths[i]
       IN IF DownloadVerified(gz[path])
          THEN /\ task' = [task EXCEPT ![i] =
                      [@ EXCEPT !.pc = IF decompress THEN "pigz" ELSE "done",
                                !.result = JobRec("download_success", "gz")]]
               /\ validated' = IF gz[path] \notin {"absent", "empty"}
                               THEN validated \cup {path} ELSE validated
          ELSE /\ task' = [task EXCEPT ![i] =
                      [@ EXCEPT !.pc = "done",
                                !.result = JobRec("download_failed", "none")]]
               /\ UNCHANGED validated
    /\ UNCHANGED flush_from
    /\ UNCHANGED <<prog, fl_vars, cc_vars, cf_vars, ez_vars, na_vars, ckpt_file, checkpoint_data, full_paths, decompress, max_workers,
                   pending_paths, mpc, cur, collected, successful_downloads,
                   successful_decompressions, progress, gz, fna, run, last_good>>

\* Lines 198-212: pigz returns. It can succeed only on a completely downloaded
\* file, which it replaces by the decompressed one; job_result.update changes the
\* dict in place, which is the dict stored in checkpoint_data when job_result is
\* existing_job (line 186).
PigzExit(i, ok) ==
    /\ prog = "wget_ftp_gb_asm"
    /\ PoolAlive
    /\ task[i].pc = "pigz"
    /\ LET path == pending_paths[i]
       IN IF ok
          THEN /\ gz[path] = "full"
               /\ gz' = [gz EXCEPT ![path] = "absent"]
               /\ fna' = [fna EXCEPT ![path] = TRUE]
               /\ IF task[i].aliased
                  THEN /\ checkpoint_data' = [checkpoint_data EXCEPT
                              !.jobs[path] = JobRec("decompress_success", "fna")]
                       /\ task' = [task EXCEPT ![i].pc = "done"]
                  ELSE /\ task' = [task EXCEPT ![i].pc = "done",
                              ![i].result = JobRec("decompress_success", "fna")]
                       /\ UNCHANGED checkpoint_data
          ELSE /\ task' = [task EXCEPT ![i] =
                      [@ EXCEPT !.pc = "done", !.aliased = FALSE,
                                !.result = JobRec("decompress_failed", "none")]]
               /\ UNCHANGED <<gz, fna, checkpoint_data>>
    /\ UNCHANGED flush_from
    /\ UNCHANGED <<prog, fl_vars, cc_vars, cf_vars, ez_vars, na_vars, ckpt_file, full_paths, decompress, max_workers,
                   pending_paths, mpc, cur, collected, successful_downloads,
                   successful_decompressions, progress, run, last_good, validated>>

\* ----------------------------------------------------------------- main
\* Lines 266-299: a run starts (a fresh process: nothing in memory survives the
\* previous one). The checkpoint is loaded, the pending paths are determined and
\* one future per pending path is submitted. A loaded value without the 'jobs'
\* mapping makes determine_pending_jobs raise at the first path (line 103), which
\* nothing catches; with an empty list the mapping is never looked at. When
\* 'jobs' is a list or a string, line 103 finds no path in it: all are pending.
MainStart(d) ==
    /\ prog = "wget_ftp_gb_asm"
    /\ mpc \in {"idle", "exit", "killed", "aborted", "crashed"}
    /\ run < MaxRuns
    /\ run' = run + 1
    /\ decompress' = d
    /\ checkpoint_data' = load_checkpoint(ckpt_file)
    /\ IF checkpoint_data'.kind \in {"ok", "badjobs"} \/ full_paths = <<>>
       THEN /\ pending_paths' = determine_pending_jobs(full_paths, checkpoint_data', d)
            /\ mpc' = "collect"
       ELSE /\ pending_paths' = <<>>
            /\ mpc' = "aborted"
    /\ task' = [i \in 1..Len(pending_paths') |-> Task("queued", Absent, FALSE, Absent)]
    /\ cur' = 0
    /\ collected' = {}
    /\ successful_downloads' = 0
    /\ successful_decompressions' = 0
    /\ progress' = 0
    /\ UNCHANGED flush_from
    /\ UNCHANGED <<prog, fl_vars, cc_vars, cf_vars, ez_vars, na_vars, ckpt_file, full_paths, max_workers, gz, fna, last_good, validated>>

\* Line 303: as_completed yields a future that holds an exception; future.result()
\* raises it in the main thread, where nothing catches it: the executor is shut
\* down and the script ends with a traceback, without the final checkpoint save.
ResultRaises(i) ==
    /\ prog = "wget_ftp_gb_asm"
    /\ mpc = "collect"
    /\ i \in Tasks \ collected
    /\ task[i].pc = "raised"
    /\ mpc' = "crashed"
    /\ checkpoint_data' = File("ok", NoJobs)
    /\ pending_paths' = <<>>
    /\ task' = <<>>
    /\ cur' = 0
    /\ collected' = {}
    /\ UNCHANGED flush_from
    /\ UNCHANGED <<prog, fl_vars, cc_vars, cf_vars, ez_vars, na_vars, ckpt_file, full_paths, decompress, max_workers,
                   successful_downloads, successful_decompressions, progress, gz, fna,
                   run, last_good, validated>>

\* Lines 302-310: as_completed yields a finished future; its result is stored
\* under result['ftp_path'] and the checkpoint file is opened for writing, which
\* truncates it. opened = FALSE: open raises, the error is logged (line 312).
RecordResult(i, opened) ==
    /\ prog = "wget_ftp_gb_asm"
    /\ mpc = "collect"
    /\ i \in Tasks \ collected
    /\ task[i].pc = "done"
    /\ LET path == pending_paths[i]
           old == checkpoint_data.jobs[path]
       IN /\ checkpoint_data' = [checkpoint_data EXCEPT !.jobs[path] = ResultOf(i)]
          /\ task' = [j \in Tasks |->
                        IF j # i /\ pending_paths[j] = path /\ task[j].aliased
                           /\ ~task[i].aliased
                        THEN [task[j] EXCEPT !.aliased = FALSE, !.result = old]
                        ELSE task[j]]
    /\ cur' = i
    /\ IF opened
       THEN /\ ckpt_file' = File("corrupt", NoJobs)
            /\ mpc' = "dump"
       ELSE /\ UNCHANGED ckpt_file
            /\ mpc' = "count"
    /\ flush_from' = IF opened THEN ckpt_file ELSE flush_from
    /\ UNCHANGED <<prog, fl_vars, cc_vars, cf_vars, ez_vars, na_vars, full_paths, decompress, max_workers, pending_paths, collected,
                   successful_downloads, successful_decompressions, progress, gz, fna,
                   run, last_good, validated>>

\* Line 311: json.dump writes the whole in-memory checkpoint. written = FALSE: the
\* write raises part way, the error is logged (line 312) and the file stays torn.
DumpCheckpoint(written) ==
    /\ prog = "wget_ftp_gb_asm"
    /\ mpc = "dump"
    /\ IF written
       THEN /\ ckpt_file' = checkpoint_data
            /\ last_good' = checkpoint_data.jobs
       ELSE UNCHANGED <<ckpt_file, last_good>>
    /\ mpc' = "count"
    /\ flush_from' = File("missing", NoJobs)
    /\ UNCHANGED <<prog, fl_vars, cc_vars, cf_vars, ez_vars, na_vars, checkpoint_data, full_paths, decompress, max_workers,
                   pending_paths, task, cur, collected, successful_downloads,
                   successful_decompressions, progress, gz, fna, run, validated>>

\* Lines 315-323: the result is counted and the progress bar advanced.
CountResult ==
    /\ prog = "wget_ftp_gb_asm"
    /\ mpc = "count"
    /\ LET s == ResultOf(cur).status
       IN /\ successful_downloads' = successful_downloads
                 + (IF s \in {"download_success", "decompress_success"} THEN 1 ELSE 0)
          /\ successful_decompressions' = successful_decompressions
                 + (IF s = "decompress_success" THEN 1 ELSE 0)
    /\ progress' = progress + 1
    /\ collected' = collected \cup {cur}
    /\ mpc' = "collect"
    /\ UNCHANGED flush_from
    /\ UNCHANGED <<prog, fl_vars, cc_vars, cf_vars, ez_vars, na_vars, ckpt_file, checkpoint_data, full_paths, decompress, max_workers,
                   pending_paths, task, cur, gz, fna, run, last_good, validated>>

\* Lines 326-335 and save_checkpoint, lines 76-79: every future was yielded; the
\* summary is logged and the final checkpoint save opens the file for writing.
\* opened = FALSE: makedirs or open raises, the error is logged (line 84).
FinalSaveOpen(opened) ==
    /\ prog = "wget_ftp_gb_asm"
    /\ mpc = "collect"
    /\ collected = Tasks
    /\ IF opened
       THEN /\ ckpt_file' = File("corrupt", NoJobs)
            /\ mpc' = "final_dump"
       ELSE /\ UNCHANGED ckpt_file
            /\ mpc' = "exit"
    /\ flush_from' = IF opened THEN ckpt_file ELSE flush_from
    /\ UNCHANGED <<prog, fl_vars, cc_vars, cf_vars, ez_vars, na_vars, checkpoint_data, full_paths, decompress, max_workers,
                   pending_paths, task, cur, collected, successful_downloads,
                   successful_decompressions, progress, gz, fna, run, last_good,
                   validated>>

\* save_checkpoint, line 80.
FinalSaveDump(written) ==
    /\ prog = "wget_ftp_gb_asm"
    /\ mpc = "final_dump"
    /\ IF written
       THEN /\ ckpt_file' = checkpoint_data
            /\ last_good' = checkpoint_data.jobs
       ELSE UNCHANGED <<ckpt_file, last_good>>
    /\ mpc' = "exit"
    /\ flush_from' = File("missing", NoJobs)
    /\ UNCHANGED <<prog, fl_vars, cc_vars, cf_vars, ez_vars, na_vars, checkpoint_data, full_paths, decompress, max_workers,
                   pending_paths, task, cur, collected, successful_downloads,
                   successful_decompressions, progress, gz, fna, run, validated>>

\* main, lines 328-332: the summary that is logged at the end of a run. It has
\* these four counts and nothing else.
LogSummary ==
    [total_paths |-> Len(full_paths),
     pending_paths |-> Len(pending_paths),
     successful_downloads |-> successful_downloads,
     successful_decompressions |-> successful_decompressions]

\* The process is killed (SIGKILL, power loss) at any point of a run; its threads
\* and subprocesses die with it and its memory is gone, the files stay as they are.
Kill ==
    /\ prog = "wget_ftp_gb_asm"
    /\ mpc \in {"collect", "dump", "count", "final_dump"}
    /\ mpc' = "killed"
    /\ checkpoint_data' = File("ok", NoJobs)
    /\ pending_paths' = <<>>
    /\ task' = <<>>
    /\ cur' = 0
    /\ collected' = {}
    /\ successful_downloads' = 0
    /\ successful_decompressions' = 0
    /\ progress' = 0
    /\ flush_from' = File("missing", NoJobs)
    /\ UNCHANGED <<prog, fl_vars, cc_vars, cf_vars, ez_vars, na_vars, ckpt_file, full_paths, decompress, max_workers, gz, fna, run,
                   last_good, validated>>

\* ============================================================ concat_fasta.py
NumFiles == 2
Files == 1..NumFiles

\* The concatenator's checkpoint file: missing, corrupt (unparseable), noshape (a
\* JSON object without 'processed_files') or ok with the set of processed files
\* (the keys of processed_files: the md5 of each path, one per file).
CFFile(kind, processed) == [kind |-> kind, processed_files |-> processed]

\* A concat_fasta call: its position, its local variable checkpoints (the
\* processed_files it read), its return value and whether another thread wrote
\* the checkpoint file since this one opened it for writing.
CFTask(pc, checkpoints, result, overwritten) ==
    [pc |-> pc, checkpoints |-> checkpoints, result |-> result,
     overwritten |-> overwritten]

CFTasks == DOMAIN cf_task
CFRunning == {f \in CFTasks : cf_task[f].pc \in {"append", "update", "write", "dump"}}

\* Lines 78-88: the call starts on a worker thread and looks its file up in the
\* checkpoint. json.load raises on an unparseable file; the except clause of
\* line 111 turns every exception into the return value False.
CheckProcessed(f) ==
    /\ prog = "concat_fasta"
    /\ cf_mpc = "running"
    /\ cf_task[f].pc = "queued"
    /\ Cardinality(CFRunning) < cf_max_workers
    /\ cf_task' = [cf_task EXCEPT ![f] =
          CASE cf_checkpoint_file.kind = "corrupt" -> CFTask("done", {}, FALSE, FALSE)
            [] cf_checkpoint_file.kind = "ok"
               /\ f \in cf_checkpoint_file.processed_files ->
                   CFTask("done", {}, TRUE, FALSE)
            [] OTHER -> CFTask("append", {}, FALSE, FALSE)]
    /\ UNCHANGED <<prog, fl_vars, cc_vars, dl_vars, ez_vars, na_vars, cf_checkpoint_file, cf_output_file, fasta_files, cf_max_workers,
                   cf_mpc, cf_collected, successful_files, failed_files, cf_run, cf_at_start>>

\* Lines 90-93: the sequences of the input file are appended to the output file.
\* readable = FALSE: opening or reading raises before anything is written.
AppendSequences(f, readable) ==
    /\ prog = "concat_fasta"
    /\ cf_mpc = "running"
    /\ cf_task[f].pc = "append"
    /\ IF readable
       THEN /\ cf_output_file' = [cf_output_file EXCEPT ![f] = @ + 1]
            /\ cf_task' = [cf_task EXCEPT ![f].pc = "update"]
       ELSE /\ cf_task' = [cf_task EXCEPT ![f] = CFTask("done", {}, FALSE, FALSE)]
            /\ UNCHANGED cf_output_file
    /\ UNCHANGED <<prog, fl_vars, cc_vars, dl_vars, ez_vars, na_vars, cf_checkpoint_file, fasta_files, cf_max_workers,
                   cf_mpc, cf_collected, successful_files, failed_files, cf_run, cf_at_start>>

\* Lines 95-105: the checkpoint is read again and the file's entry is added to the
\* local copy. An unparseable file makes json.load raise, an object without
\* 'processed_files' makes line 102 raise.
ReadCheckpoint(f) ==
    /\ prog = "concat_fasta"
    /\ cf_mpc = "running"
    /\ cf_task[f].pc = "update"
    /\ cf_task' = [cf_task EXCEPT ![f] =
          CASE cf_checkpoint_file.kind = "missing" -> CFTask("write", {f}, FALSE, FALSE)
            [] cf_checkpoint_file.kind = "ok" ->
                   CFTask("write", cf_checkpoint_file.processed_files \cup {f},
                          FALSE, FALSE)
            [] OTHER -> CFTask("done", {}, FALSE, FALSE)]
    /\ UNCHANGED <<prog, fl_vars, cc_vars, dl_vars, ez_vars, na_vars, cf_checkpoint_file, cf_output_file, fasta_files, cf_max_workers,
                   cf_mpc, cf_collected, successful_files, failed_files, cf_run, cf_at_start>>

\* Line 107: open(checkpoint_file, 'w') truncates the file.
OpenCheckpoint(f) ==
    /\ prog = "concat_fasta"
    /\ cf_mpc = "running"
    /\ cf_task[f].pc = "write"
    /\ cf_checkpoint_file' = CFFile("corrupt", {})
    /\ cf_task' = [g \in CFTasks |->
                      IF g = f THEN [cf_task[g] EXCEPT !.pc = "dump", !.overwritten = FALSE]
                      ELSE [cf_task[g] EXCEPT !.overwritten = FALSE]]
    /\ UNCHANGED <<prog, fl_vars, cc_vars, dl_vars, ez_vars, na_vars, cf_output_file, fasta_files, cf_max_workers,
                   cf_mpc, cf_collected, successful_files, failed_files, cf_run, cf_at_start>>

\* Line 108: json.dump writes the local copy from offset 0 of the thread's own file
\* object. When another thread wrote after this one opened the file, the bytes of
\* the other write that lie beyond this one remain: intact = FALSE is the outcome
\* in which this write is the shorter one and the file is left unparseable.
WriteCheckpoint(f, intact) ==
    /\ prog = "concat_fasta"
    /\ cf_mpc = "running"
    /\ cf_task[f].pc = "dump"
    /\ intact \/ cf_task[f].overwritten
    /\ cf_checkpoint_file' = IF intact THEN CFFile("ok", cf_task[f].checkpoints)
                             ELSE CFFile("corrupt", {})
    /\ cf_task' = [g \in CFTasks |->
                      IF g = f THEN [cf_task[g] EXCEPT !.pc = "done", !.result = TRUE]
                      ELSE IF cf_task[g].pc = "dump"
                           THEN [cf_task[g] EXCEPT !.overwritten = TRUE]
                           ELSE cf_task[g]]
    /\ UNCHANGED <<prog, fl_vars, cc_vars, dl_vars, ez_vars, na_vars, cf_output_file, fasta_files, cf_max_workers,
                   cf_mpc, cf_collected, successful_files, failed_files, cf_run, cf_at_start>>

\* A start of main that removes the output file whether or not a checkpoint
\* exists.
CFMainStart_AlwaysUnlink ==
    /\ prog = "concat_fasta"
    /\ cf_mpc \in {"idle", "exit", "killed"}
    /\ cf_run < MaxRuns
    /\ cf_run' = cf_run + 1
    /\ cf_output_file' = [f \in Files |-> 0]
    /\ cf_task' = [f \in fasta_files |-> CFTask("queued", {}, FALSE, FALSE)]
    /\ cf_mpc' = "running"
    /\ cf_collected' = {}
    /\ successful_files' = 0
    /\ failed_files' = 0
    /\ cf_at_start' = IF cf_checkpoint_file.kind = "ok"
                      THEN cf_checkpoint_file.processed_files ELSE {}
    /\ UNCHANGED <<prog, fl_vars, cc_vars, dl_vars, ez_vars, na_vars, cf_checkpoint_file, fasta_files, cf_max_workers>>

\* main, lines 133-158: a run starts. Without a checkpoint file the output file is
\* removed; one concat_fasta future per input file is submitted.
CFMainStart ==
    /\ prog = "concat_fasta"
    /\ cf_mpc \in {"idle", "exit", "killed"}
    /\ cf_run < MaxRuns
    /\ cf_run' = cf_run + 1
    /\ cf_output_file' = IF cf_checkpoint_file.kind = "missing"
                         THEN [f \in Files |-> 0] ELSE cf_output_file
    /\ cf_task' = [f \in fasta_files |-> CFTask("queued", {}, FALSE, FALSE)]
    /\ cf_mpc' = "running"
    /\ cf_collected' = {}
    /\ successful_files' = 0
    /\ failed_files' = 0
    /\ cf_at_start' = IF cf_checkpoint_file.kind = "ok"
                      THEN cf_checkpoint_file.processed_files ELSE {}
    /\ UNCHANGED <<prog, fl_vars, cc_vars, dl_vars, ez_vars, na_vars, cf_checkpoint_file, fasta_files, cf_max_workers>>

\* main, lines 161-170: as_completed yields a finished future and it is counted.
CFCollect(f) ==
    /\ prog = "concat_fasta"
    /\ cf_mpc = "running"
    /\ f \in CFTasks \ cf_collected
    /\ cf_task[f].pc = "done"
    /\ cf_collected' = cf_collected \cup {f}
    /\ IF cf_task[f].result
       THEN successful_files' = successful_files + 1 /\ UNCHANGED failed_files
       ELSE failed_files' = failed_files + 1 /\ UNCHANGED successful_files
    /\ UNCHANGED <<prog, fl_vars, cc_vars, dl_vars, ez_vars, na_vars, cf_checkpoint_file, cf_output_file, fasta_files, cf_max_workers,
                   cf_task, cf_mpc, cf_run, cf_at_start>>

\* main, line 188, and line 191: main returns 0 on every path that reaches its
\* end, and that value is the exit status of the process (sys.exit(main())).
cf_exit_status == 0

\* main, lines 177-188: every future was counted; the summary is logged.
CFFinish ==
    /\ prog = "concat_fasta"
    /\ cf_mpc = "running"
    /\ cf_collected = CFTasks
    /\ cf_mpc' = "exit"
    /\ UNCHANGED <<prog, fl_vars, cc_vars, dl_vars, ez_vars, na_vars, cf_checkpoint_file, cf_output_file, fasta_files, cf_max_workers,
                   cf_task, cf_collected, successful_files, failed_files, cf_run, cf_at_start>>

\* The process is killed at any point of a run; the files stay as they are.
CFKill ==
    /\ prog = "concat_fasta"
    /\ cf_mpc = "running"
    /\ cf_mpc' = "killed"
    /\ cf_task' = <<>>
    /\ cf_collected' = {}
    /\ successful_files' = 0
    /\ failed_files' = 0
    /\ UNCHANGED <<prog, fl_vars, cc_vars, dl_vars, ez_vars, na_vars, cf_checkpoint_file, cf_output_file, fasta_files, cf_max_workers,
                   cf_run, cf_at_start>>

\* ==================================================== dwnld_nt_acc_entrez.py
NumAcc == 2
Accessions == 1..NumAcc

\* main(), line 198: ThreadPoolExecutor(max_workers=10).
EzPoolWidth == 10

\* One download_sequence call. pc: "queued" (submitted), "efetch" (output file
\* opened, efetch running), "check" (efetch returned), "done" (returned result).
EzTask(pc, returncode, result) ==
    [pc |-> pc, returncode |-> returncode, result |-> result]

EzTasks == DOMAIN ez_task
EzRunning == {a \in EzTasks : ez_task[a].pc \in {"efetch", "check"}}

\* A check that looks at the exit status only.
FetchSucceeded_ExitOnly(returncode, filestate) == returncode = 0

\* download_sequence, line 158: the command succeeded and wrote something.
FetchSucceeded(returncode, filestate) ==
    returncode = 0 /\ filestate \notin {"absent", "empty"}

\* main(), lines 190-203: one future per accession.
EzMainStart ==
    /\ prog = "dwnld_nt_acc_entrez"
    /\ ez_mpc = "idle"
    /\ ez_task' = [a \in accessions |-> EzTask("queued", 0, FALSE)]
    /\ ez_mpc' = "running"
    /\ UNCHANGED <<prog, fl_vars, cc_vars, dl_vars, cf_vars, na_vars, accessions, ez_file, ez_collected,
                   ez_successful_downloads, failed_accessions>>

\* download_sequence, line 154: open(output_file, 'w') creates or truncates the
\* file. When open raises, lines 164-169 remove the file if it exists and
\* return False.
EzOpenOutput(a, opened) ==
    /\ prog = "dwnld_nt_acc_entrez"
    /\ ez_mpc = "running"
    /\ a \in EzTasks
    /\ ez_task[a].pc = "queued"
    /\ Cardinality(EzRunning) < EzPoolWidth
    /\ IF opened
       THEN /\ ez_file' = [ez_file EXCEPT ![a] = "empty"]
            /\ ez_task' = [ez_task EXCEPT ![a].pc = "efetch"]
       ELSE /\ ez_file' = [ez_file EXCEPT ![a] = "absent"]
            /\ ez_task' = [ez_task EXCEPT ![a] = EzTask("done", 0, FALSE)]
    /\ UNCHANGED <<prog, fl_vars, cc_vars, dl_vars, cf_vars, na_vars, accessions, ez_mpc, ez_collected,
                   ez_successful_downloads, failed_accessions>>

\* download_sequence, line 155: subprocess.run(efetch ..., stdout=f). The command
\* exits with status 0 after writing the sequence or nothing, or with another
\* status after writing nothing or a part; when the command cannot be started,
\* subprocess.run raises and lines 164-169 remove the file and return False.
EzEfetchExit(a, started, returncode, out) ==
    /\ prog = "dwnld_nt_acc_entrez"
    /\ ez_mpc = "running"
    /\ a \in EzTasks
    /\ ez_task[a].pc = "efetch"
    /\ IF started
       THEN /\ out \in (IF returncode = 0 THEN {"empty", "full"} ELSE {"empty", "partial"})
            /\ ez_file' = [ez_file EXCEPT ![a] = out]
            /\ ez_task' = [ez_task EXCEPT ![a] = EzTask("check", returncode, FALSE)]
       ELSE /\ returncode = 0
            /\ out = "empty"
            /\ ez_file' = [ez_file EXCEPT ![a] = "absent"]
            /\ ez_task' = [ez_task EXCEPT ![a] = EzTask("done", 0, FALSE)]
    /\ UNCHANGED <<prog, fl_vars, cc_vars, dl_vars, cf_vars, na_vars, accessions, ez_mpc, ez_collected,
                   ez_successful_downloads, failed_accessions>>

\* download_sequence, lines 157-162: True when the command succeeded and the file
\* is not empty; otherwise the file is removed and the result is False.
EzCheckResult(a) ==
    /\ prog = "dwnld_nt_acc_entrez"
    /\ ez_mpc = "running"
    /\ a \in EzTasks
    /\ ez_task[a].pc = "check"
    /\ IF FetchSucceeded(ez_task[a].returncode, ez_file[a])
       THEN /\ ez_task' = [ez_task EXCEPT ![a].pc = "done", ![a].result = TRUE]
            /\ UNCHANGED ez_file
       ELSE /\ ez_task' = [ez_task EXCEPT ![a].pc = "done", ![a].result = FALSE]
            /\ ez_file' = [ez_file EXCEPT ![a] = "absent"]
    /\ UNCHANGED <<prog, fl_vars, cc_vars, dl_vars, cf_vars, na_vars, accessions, ez_mpc, ez_collected,
                   ez_successful_downloads, failed_accessions>>

\* main(), lines 206-218: as_completed yields a finished future; it is counted
\* as a success or its accession is appended to failed_accessions.
EzCollect(a) ==
    /\ prog = "dwnld_nt_acc_entrez"
    /\ ez_mpc = "running"
    /\ a \in EzTasks \ ez_collected
    /\ ez_task[a].pc = "done"
    /\ ez_collected' = ez_collected \cup {a}
    /\ IF ez_task[a].result
       THEN /\ ez_successful_downloads' = ez_successful_downloads + 1
            /\ UNCHANGED failed_accessions
       ELSE /\ failed_accessions' = Append(failed_accessions, a)
            /\ UNCHANGED ez_successful_downloads
    /\ UNCHANGED <<prog, fl_vars, cc_vars, dl_vars, cf_vars, na_vars, accessions, ez_file, ez_task, ez_mpc>>

\* main(), lines 220-225: every future was yielded; the results are logged.
EzFinish ==
    /\ prog = "dwnld_nt_acc_entrez"
    /\ ez_mpc = "running"
    /\ ez_collected = EzTasks
    /\ ez_mpc' = "exit"
    /\ UNCHANGED <<prog, fl_vars, cc_vars, dl_vars, cf_vars, na_vars, accessions, ez_file, ez_task, ez_collected,
                   ez_successful_downloads, failed_accessions>>

\* ======================================================== nuccore2asm_acc.py
\* get_assembly_accession, line 44: max_retries=3 (main passes no other value).
max_retries == 3

\* main(), line 155: ThreadPoolExecutor(max_workers=4).
NaPoolWidth == 4

\* One get_assembly_accession call. pc: "queued", "run" (the command of line 61
\* runs), "sleep" (the attempt failed, the call sleeps), "done". attempt is the
\* loop variable of line 55; result is "found" (a tuple with an FTP path),
\* "notfound" (a tuple without) or "failed" (line 134); logged is the attempt
\* count of the message of line 133 (0: no such message).
\* History of the call: calls counts the commands run, fails the failed attempts,
\* failure is the kind of the last failed attempt and delay the seconds slept
\* after it.
NaTask(pc, attempt, result, logged, calls, fails, failure, delay) ==
    [pc |-> pc, attempt |-> attempt, result |-> result, logged |-> logged,
     calls |-> calls, fails |-> fails, failure |-> failure, delay |-> delay]

NaTasks == DOMAIN na_task
NaRunning == {i \in NaTasks : na_task[i].pc \in {"run", "sleep"}}

\* 2 ** attempt of line 123.
RECURSIVE Pow2(_)
Pow2(n) == IF n = 0 THEN 1 ELSE 2 * Pow2(n - 1)

\* Lines 119-131: the seconds slept after a failed attempt. time.sleep(2 ** attempt)
\* of line 123 is inside the try block, after the test of the return code: only a
\* non-zero exit reaches it; a TimeoutExpired or another exception goes to its
\* except clause. time.sleep(1) of line 131 follows in every case.
SleepAfter(failure, attempt) ==
    (IF failure = "nonzero" THEN Pow2(attempt) ELSE 0) + 1

\* A loop that runs one iteration more.
HasNextAttempt_OneMore(attempt) == attempt < max_retries

\* Line 55: for attempt in range(max_retries) has another iteration.
HasNextAttempt(attempt) == attempt + 1 < max_retries

\* main(), lines 150-162: one future per entry of the list.
NaMainStart ==
    /\ prog = "nuccore2asm_acc"
    /\ na_mpc = "idle"
    /\ na_task' = [i \in 1..Len(nuccore_accs) |->
                      NaTask("queued", 0, "none", 0, 0, 0, "none", 0)]
    /\ na_mpc' = "running"
    /\ UNCHANGED <<prog, fl_vars, cc_vars, dl_vars, cf_vars, ez_vars, nuccore_accs, na_collected, results,
                   na_progress, na_malformed, na_row_future>>

\* Lines 55-61: a worker thread picks the call up and runs the command of the
\* first attempt.
NaStartAttempt(i) ==
    /\ prog = "nuccore2asm_acc"
    /\ na_mpc = "running"
    /\ na_task[i].pc = "queued"
    /\ Cardinality(NaRunning) < NaPoolWidth
    /\ na_task' = [na_task EXCEPT ![i].pc = "run", ![i].calls = @ + 1]
    /\ UNCHANGED <<prog, fl_vars, cc_vars, dl_vars, cf_vars, ez_vars, nuccore_accs, na_mpc, na_collected,
                   results, na_progress, na_malformed, na_row_future>>

\* Lines 61-131: the command ends. outcome "rc0": exit status 0, the tuple parsed
\* from the output is returned (found: it has an FTP path); "nonzero": another
\* exit status; "timeout": TimeoutExpired after 60 s; "exception": any other
\* exception. An accession that breaks the command line (an unbalanced quote)
\* makes the shell exit with a syntax error at every attempt.
NaCmdExit(i, outcome, found) ==
    /\ prog = "nuccore2asm_acc"
    /\ na_mpc = "running"
    /\ na_task[i].pc = "run"
    /\ nuccore_accs[i] \in na_malformed => outcome = "nonzero"
    /\ IF outcome = "rc0"
       THEN na_task' = [na_task EXCEPT ![i].pc = "done",
                           ![i].result = IF found THEN "found" ELSE "notfound"]
       ELSE /\ found
            /\ na_task' = [na_task EXCEPT ![i].pc = "sleep",
                              ![i].fails = @ + 1,
                              ![i].failure = outcome,
                              ![i].delay = SleepAfter(outcome, na_task[i].attempt)]
    /\ UNCHANGED <<prog, fl_vars, cc_vars, dl_vars, cf_vars, ez_vars, nuccore_accs, na_mpc, na_collected,
                   results, na_progress, na_malformed, na_row_future>>

\* Lines 55 and 131-134: the sleep is over; the loop runs the command again, or it
\* is exhausted: the failure is logged with max_retries and the empty tuple
\* returned.
NaNextAttempt(i) ==
    /\ prog = "nuccore2asm_acc"
    /\ na_mpc = "running"
    /\ na_task[i].pc = "sleep"
    /\ IF HasNextAttempt(na_task[i].attempt)
       THEN na_task' = [na_task EXCEPT ![i].pc = "run", ![i].attempt = @ + 1,
                           ![i].calls = @ + 1]
       ELSE na_task' = [na_task EXCEPT ![i].pc = "done", ![i].result = "failed",
                           ![i].logged = max_retries]
    /\ UNCHANGED <<prog, fl_vars, cc_vars, dl_vars, cf_vars, ez_vars, nuccore_accs, na_mpc, na_collected,
                   results, na_progress, na_malformed, na_row_future>>

\* A collection loop that gives every collected accession a row.
HasRow_Always(result) == TRUE

\* main, lines 168-169 ("Only add results with ftp_path"): a returned tuple gives
\* a result row when its asm_ftp_path is set.
HasRow(result) == result = "found"

\* A collection loop that pairs the tuples with the accessions in input order,
\* the first tuple that arrives with the first accession.
RowAccession_ByArrival(i) == nuccore_accs[Len(results) + 1]

\* main, lines 157 and 170: futures[future], the accession the yielded future was
\* submitted with; it becomes the nt_acc of the row.
RowAccession(i) == nuccore_accs[i]

\* main(), lines 165-186: as_completed yields a finished future; a tuple with an
\* FTP path is appended to results; the progress bar advances.
NaCollect(i) ==
    /\ prog = "nuccore2asm_acc"
    /\ na_mpc = "running"
    /\ i \in NaTasks \ na_collected
    /\ na_task[i].pc = "done"
    /\ na_collected' = na_collected \cup {i}
    /\ results' = IF HasRow(na_task[i].result)
                  THEN Append(results, RowAccession(i)) ELSE results
    /\ na_row_future' = IF HasRow(na_task[i].result)
                        THEN Append(na_row_future, i) ELSE na_row_future
    /\ na_progress' = na_progress + 1
    /\ UNCHANGED <<prog, fl_vars, cc_vars, dl_vars, cf_vars, ez_vars, nuccore_accs, na_task, na_mpc,
                   na_malformed>>

\* main(), lines 188-215: every future was yielded; the results are written.
\* written = FALSE: writing raises, sys.exit(1).
NaWriteOutput(written) ==
    /\ prog = "nuccore2asm_acc"
    /\ na_mpc = "running"
    /\ na_collected = NaTasks
    /\ na_mpc' = IF written THEN "exit" ELSE "exit1"
    /\ UNCHANGED <<prog, fl_vars, cc_vars, dl_vars, cf_vars, ez_vars, nuccore_accs, na_task, na_collected,
                   results, na_progress, na_malformed, na_row_future>>

\* ============================================================== get_FSlink.py
NumFasta == 2
MaxHeaders == 2

\* A FASTA file of the input directory: the number of its header lines, whether
\* reading it raises (open fails, a line cannot be decoded, a header line is
\* empty) and, if so, the number of header lines read before that.
FlFile(headers, raises, raise_at) ==
    [headers |-> headers, raises |-> raises, raise_at |-> raise_at]

FlFiles ==
    {FlFile(n, FALSE, 0) : n \in 0..MaxHeaders}
       \cup UNION {{FlFile(n, TRUE, k) : k \in 0..n} : n \in 0..MaxHeaders}

FlFutures == DOMAIN fl_future

\* extract_ids_from_fasta, lines 73-83: what the generator does when it is resumed
\* after pos header lines: it yields the next pair, or reading raises and the
\* except clause logs the error, or the file is exhausted.
GenStep(file, pos) ==
    IF file.raises /\ file.raise_at = pos THEN "error"
    ELSE IF pos < file.headers THEN "yield"
    ELSE "end"

\* An extractor that gives up the whole run at the first file it cannot read.
MpcAfterError_Abort == "exit"

\* extract_ids_from_fasta, lines 82-83: the except clause logs and the generator
\* returns; process_fasta_files goes on with its loop.
MpcAfterError == "running"

\* main, lines 136-145, and process_fasta_files, lines 96-107: the CSV header is
\* written and one call per FASTA file is submitted to the executor.
FlMainStart ==
    /\ prog = "get_FSlink"
    /\ fl_mpc = "idle"
    /\ fl_mpc' = "running"
    /\ fl_future' = [f \in 1..Len(fl_fasta_files) |-> "submitted"]
    /\ UNCHANGED <<prog, dl_vars, cf_vars, ez_vars, na_vars, cc_vars, fl_fasta_files,
                   fl_cur, fl_pos, fl_rows, total_ids, fl_pbar, fl_collected, fl_errors>>

\* Lines 104-105: a worker thread calls extract_ids_from_fasta. It is a generator
\* function: the call runs none of its body and returns a generator object, which
\* becomes the result of the future.
FlCallReturns(f) ==
    /\ prog = "get_FSlink"
    /\ fl_mpc = "running"
    /\ fl_future[f] = "submitted"
    /\ fl_future' = [fl_future EXCEPT ![f] = "generator"]
    /\ UNCHANGED <<prog, dl_vars, cf_vars, ez_vars, na_vars, cc_vars, fl_fasta_files,
                   fl_mpc, fl_cur, fl_pos, fl_rows, total_ids, fl_pbar, fl_collected,
                   fl_errors>>

\* Lines 112-116: as_completed yields a finished future and 'yield from
\* future.result()' starts to drain its generator on the main thread.
FlTake(f) ==
    /\ prog = "get_FSlink"
    /\ fl_mpc = "running"
    /\ fl_cur = 0
    /\ f \in FlFutures \ fl_collected
    /\ fl_future[f] = "generator"
    /\ fl_cur' = f
    /\ fl_pos' = 0
    /\ UNCHANGED <<prog, dl_vars, cf_vars, ez_vars, na_vars, cc_vars, fl_fasta_files,
                   fl_future, fl_mpc, fl_rows, total_ids, fl_pbar, fl_collected,
                   fl_errors>>

\* Lines 75-81 and main, lines 153-156: the generator yields the pair of the next
\* header line and main writes it to the CSV.
FlYieldId ==
    /\ prog = "get_FSlink"
    /\ fl_mpc = "running"
    /\ fl_cur # 0
    /\ GenStep(fl_fasta_files[fl_cur], fl_pos) = "yield"
    /\ fl_rows' = Append(fl_rows, <<fl_cur, fl_pos + 1>>)
    /\ total_ids' = total_ids + 1
    /\ fl_pos' = fl_pos + 1
    /\ UNCHANGED <<prog, dl_vars, cf_vars, ez_vars, na_vars, cc_vars, fl_fasta_files,
                   fl_future, fl_mpc, fl_cur, fl_pbar, fl_collected, fl_errors>>

\* Lines 82-83 and 117: reading the file raises; the generator logs the error and
\* returns, 'yield from' ends and the progress bar advances.
FlReadRaises ==
    /\ prog = "get_FSlink"
    /\ fl_mpc = "running"
    /\ fl_cur # 0
    /\ GenStep(fl_fasta_files[fl_cur], fl_pos) = "error"
    /\ fl_errors' = fl_errors \cup {fl_cur}
    /\ fl_pbar' = fl_pbar + 1
    /\ fl_collected' = fl_collected \cup {fl_cur}
    /\ fl_cur' = 0
    /\ fl_mpc' = MpcAfterError
    /\ UNCHANGED <<prog, dl_vars, cf_vars, ez_vars, na_vars, cc_vars, fl_fasta_files,
                   fl_future, fl_pos, fl_rows, total_ids>>

\* Lines 75-76 and 117: the file is exhausted; the generator returns, 'yield from'
\* ends and the progress bar advances.
FlFileEnd ==
    /\ prog = "get_FSlink"
    /\ fl_mpc = "running"
    /\ fl_cur # 0
    /\ GenStep(fl_fasta_files[fl_cur], fl_pos) = "end"
    /\ fl_pbar' = fl_pbar + 1
    /\ fl_collected' = fl_collected \cup {fl_cur}
    /\ fl_cur' = 0
    /\ UNCHANGED <<prog, dl_vars, cf_vars, ez_vars, na_vars, cc_vars, fl_fasta_files,
                   fl_future, fl_mpc, fl_pos, fl_rows, total_ids, fl_errors>>

\* main, lines 158-159: every future was drained; the completion is logged.
FlFinish ==
    /\ prog = "get_FSlink"
    /\ fl_mpc = "running"
    /\ fl_cur = 0
    /\ fl_collected = FlFutures
    /\ fl_mpc' = "exit"
    /\ UNCHANGED <<prog, dl_vars, cf_vars, ez_vars, na_vars, cc_vars, fl_fasta_files,
                   fl_future, fl_cur, fl_pos, fl_rows, total_ids, fl_pbar, fl_collected,
                   fl_errors>>

\* ======================================== concat_clean_fasta.py, chunk_fasta_content
MaxLen == 3
MaxChunkSize == 3
MaxYields == 4

\* The texts: strings of at most MaxLen characters, '>' or a sequence letter.
Contents == UNION {[1..n -> {">", "A"}] : n \in 0..MaxLen}

\* content[a:b] for 0 <= a <= b <= len(content).
Slice(content, a, b) == SubSeq(content, a + 1, b)

\* content.rfind(ch, start, end): the highest index i with start <= i < end and
\* content[i] = ch (indices from 0), or -1.
rfind(content, ch, start, end) ==
    LET hits == {i \in start..(end - 1) : i < Len(content) /\ content[i + 1] = ch}
    IN IF hits = {} THEN -1 ELSE CHOOSE i \in hits : \A j \in hits : j <= i

\* A yielded chunk, with the value of start when it was yielded.
Chunk(start, text) == [start |-> start, text |-> text]

\* Lines 114-117: the window reaches the end of the content; the rest is yielded
\* and the loop is left.
CcYieldRest ==
    /\ prog = "concat_clean_fasta"
    /\ cc_pc = "while"
    /\ cc_start < Len(cc_content)
    /\ cc_start + chunk_size >= Len(cc_content)
    /\ cc_chunks' = Append(cc_chunks,
                           Chunk(cc_start, Slice(cc_content, cc_start, Len(cc_content))))
    /\ cc_pc' = "done"
    /\ UNCHANGED <<prog, dl_vars, cf_vars, ez_vars, na_vars, fl_vars, cc_content,
                   chunk_size, cc_start>>

\* Lines 119-124: the window ends inside the content; the chunk ends at the last
\* '>' of the window (at the end of the content when the window has none) and the
\* next chunk starts there. The generator is resumed at most MaxYields times.
CcYieldChunk ==
    /\ prog = "concat_clean_fasta"
    /\ cc_pc = "while"
    /\ cc_start < Len(cc_content)
    /\ cc_start + chunk_size < Len(cc_content)
    /\ Len(cc_chunks) < MaxYields
    /\ LET found == rfind(cc_content, ">", cc_start, cc_start + chunk_size)
           end == IF found = -1 THEN Len(cc_content) ELSE found
       IN /\ cc_chunks' = Append(cc_chunks,
                                 Chunk(cc_start, Slice(cc_content, cc_start, end)))
          /\ cc_start' = end
    /\ UNCHANGED <<prog, dl_vars, cf_vars, ez_vars, na_vars, fl_vars, cc_content,
                   chunk_size, cc_pc>>

\* Line 113: start has reached the end of the content; the generator returns.
CcLoopEnds ==
    /\ prog = "concat_clean_fasta"
    /\ cc_pc = "while"
    /\ cc_start >= Len(cc_content)
    /\ cc_pc' = "done"
    /\ UNCHANGED <<prog, dl_vars, cf_vars, ez_vars, na_vars, fl_vars, cc_content,
                   chunk_size, cc_start, cc_chunks>>

\* ------------------------------------------------------------ specification
\* The FTP list: up to MaxItems lines over the paths, duplicates included. Lists
\* that differ only by a renaming of the paths behave alike, so one list per class
\* is taken: the first line is path 1 and a line names at most one path more than
\* the lines before it do.
RECURSIVE MaxOf(_)
MaxOf(s) == IF s = <<>> THEN 0
            ELSE LET m == MaxOf(Tail(s)) IN IF Head(s) > m THEN Head(s) ELSE m

InputLists ==
    {s \in UNION {[1..n -> Keys] : n \in 0..MaxItems} :
        \A j \in 1..Len(s) : s[j] <= MaxOf(SubSeq(s, 1, j - 1)) + 1}

\* Before the first run of the downloader: the checkpoint file is missing,
\* unparseable, or valid JSON of another shape (without 'jobs', or with a 'jobs'
\* that is no mapping); no local file exists.
DLInit ==
    /\ ckpt_file \in {File("missing", NoJobs), File("corrupt", NoJobs),
                      File("noshape", NoJobs), File("badjobs", NoJobs)}
    /\ checkpoint_data = File("ok", NoJobs)
    /\ full_paths \in InputLists
    /\ decompress = FALSE
    /\ max_workers \in 1..MaxWorkers
    /\ pending_paths = <<>>
    /\ task = <<>>
    /\ mpc = "idle"
    /\ cur = 0
    /\ collected = {}
    /\ successful_downloads = 0
    /\ successful_decompressions = 0
    /\ progress = 0
    /\ gz = [k \in Keys |-> "absent"]
    /\ fna = [k \in Keys |-> FALSE]
    /\ run = 0
    /\ last_good = NoJobs
    /\ validated = {}
    /\ flush_from = File("missing", NoJobs)

\* The downloader is not the script that runs.
DLOff ==
    /\ ckpt_file = File("missing", NoJobs)
    /\ checkpoint_data = File("ok", NoJobs)
    /\ full_paths = <<>>
    /\ decompress = FALSE
    /\ max_workers = 1
    /\ pending_paths = <<>>
    /\ task = <<>>
    /\ mpc = "off"
    /\ cur = 0
    /\ collected = {}
    /\ successful_downloads = 0
    /\ successful_decompressions = 0
    /\ progress = 0
    /\ gz = [k \in Keys |-> "absent"]
    /\ fna = [k \in Keys |-> FALSE]
    /\ run = 0
    /\ last_good = NoJobs
    /\ validated = {}
    /\ flush_from = File("missing", NoJobs)

\* Before the first run of the concatenator: the checkpoint file is missing,
\* unparseable, or a JSON object of another shape; the output file is empty. The
\* input files are files 1..n.
CFInit ==
    /\ cf_checkpoint_file \in {CFFile("missing", {}), CFFile("corrupt", {}),
                               CFFile("noshape", {})}
    /\ cf_output_file = [f \in Files |-> 0]
    /\ fasta_files \in {1..n : n \in 1..NumFiles}
    /\ cf_max_workers \in 1..MaxWorkers
    /\ cf_task = <<>>
    /\ cf_mpc = "idle"
    /\ cf_collected = {}
    /\ successful_files = 0
    /\ failed_files = 0
    /\ cf_run = 0
    /\ cf_at_start = {}

\* The concatenator is not the script that runs.
CFOff ==
    /\ cf_checkpoint_file = CFFile("missing", {})
    /\ cf_output_file = [f \in Files |-> 0]
    /\ fasta_files = {}
    /\ cf_max_workers = 1
    /\ cf_task = <<>>
    /\ cf_mpc = "off"
    /\ cf_collected = {}
    /\ successful_files = 0
    /\ failed_files = 0
    /\ cf_run = 0
    /\ cf_at_start = {}

\* Before a run of the efetch downloader: the accessions are 1..n; a file of an
\* earlier run may be in the output folder.
EzInit ==
    /\ accessions \in {1..n : n \in 1..NumAcc}
    /\ ez_file \in [Accessions -> {"absent", "full"}]
    /\ ez_task = [a \in {} |-> EzTask("queued", 0, FALSE)]
    /\ ez_mpc = "idle"
    /\ ez_collected = {}
    /\ ez_successful_downloads = 0
    /\ failed_accessions = <<>>

\* The efetch downloader is not the script that runs.
EzOff ==
    /\ accessions = {}
    /\ ez_file = [a \in Accessions |-> "absent"]
    /\ ez_task = [a \in {} |-> EzTask("queued", 0, FALSE)]
    /\ ez_mpc = "off"
    /\ ez_collected = {}
    /\ ez_successful_downloads = 0
    /\ failed_accessions = <<>>

\* Before a run of the converter: the list of accessions as read (duplicates are
\* kept), some of them malformed.
NaInit ==
    /\ nuccore_accs \in InputLists
    /\ na_malformed \in SUBSET Keys
    /\ na_task = <<>>
    /\ na_mpc = "idle"
    /\ na_collected = {}
    /\ results = <<>>
    /\ na_progress = 0
    /\ na_row_future = <<>>

\* The converter is not the script that runs.
NaOff ==
    /\ nuccore_accs = <<>>
    /\ na_malformed = {}
    /\ na_task = <<>>
    /\ na_mpc = "off"
    /\ na_collected = {}
    /\ results = <<>>
    /\ na_progress = 0
    /\ na_row_future = <<>>

\* Before a run of the extractor: the FASTA files of the input directory.
FlInit ==
    /\ fl_fasta_files \in UNION {[1..n -> FlFiles] : n \in 0..NumFasta}
    /\ fl_future = <<>>
    /\ fl_mpc = "idle"
    /\ fl_cur = 0
    /\ fl_pos = 0
    /\ fl_rows = <<>>
    /\ total_ids = 0
    /\ fl_pbar = 0
    /\ fl_collected = {}
    /\ fl_errors = {}

\* The extractor is not the script that runs.
FlOff ==
    /\ fl_fasta_files = <<>>
    /\ fl_future = <<>>
    /\ fl_mpc = "off"
    /\ fl_cur = 0
    /\ fl_pos = 0
    /\ fl_rows = <<>>
    /\ total_ids = 0
    /\ fl_pbar = 0
    /\ fl_collected = {}
    /\ fl_errors = {}

\* chunk_fasta_content is called with a text and a positive chunk size.
CcInit ==
    /\ cc_content \in Contents
    /\ chunk_size \in 1..MaxChunkSize
    /\ cc_start = 0
    /\ cc_chunks = <<>>
    /\ cc_pc = "while"

\* chunk_fasta_content is not what runs.
CcOff ==
    /\ cc_content = <<>>
    /\ chunk_size = 1
    /\ cc_start = 0
    /\ cc_chunks = <<>>
    /\ cc_pc = "off"

DLNext ==
    \/ \E d \in BOOLEAN : MainStart(d)
    \/ \E i \in Tasks, launch \in BOOLEAN : StartTask(i, launch)
    \/ \E i \in Tasks, rc0 \in BOOLEAN, timed_out \in BOOLEAN,
             left \in {"full", "empty", "partial"} :
          WgetExit(i, rc0, timed_out, left)
    \/ \E i \in Tasks : VerifyDownload(i)
    \/ \E i \in Tasks, ok \in BOOLEAN : PigzExit(i, ok)
    \/ \E i \in Tasks : ResultRaises(i)
    \/ \E i \in Tasks, opened \in BOOLEAN : RecordResult(i, opened)
    \/ \E written \in BOOLEAN : DumpCheckpoint(written)
    \/ CountResult
    \/ \E opened \in BOOLEAN : FinalSaveOpen(opened)
    \/ \E written \in BOOLEAN : FinalSaveDump(written)
    \/ Kill

CFNext ==
    \/ CFMainStart
    \/ \E f \in CFTasks : CheckProcessed(f)
    \/ \E f \in CFTasks, readable \in BOOLEAN : AppendSequences(f, readable)
    \/ \E f \in CFTasks : ReadCheckpoint(f)
    \/ \E f \in CFTasks : OpenCheckpoint(f)
    \/ \E f \in CFTasks, intact \in BOOLEAN : WriteCheckpoint(f, intact)
    \/ \E f \in CFTasks : CFCollect(f)
    \/ CFFinish
    \/ CFKill

EzNext ==
    \/ EzMainStart
    \/ \E a \in EzTasks, opened \in BOOLEAN : EzOpenOutput(a, opened)
    \/ \E a \in EzTasks, started \in BOOLEAN, returncode \in {0, 1},
          out \in {"empty", "partial", "full"} : EzEfetchExit(a, started, returncode, out)
    \/ \E a \in EzTasks : EzCheckResult(a)
    \/ \E a \in EzTasks : EzCollect(a)
    \/ EzFinish

NaNext ==
    \/ NaMainStart
    \/ \E i \in NaTasks : NaStartAttempt(i)
    \/ \E i \in NaTasks, outcome \in {"rc0", "nonzero", "timeout", "exception"},
          found \in BOOLEAN : NaCmdExit(i, outcome, found)
    \/ \E i \in NaTasks : NaNextAttempt(i)
    \/ \E i \in NaTasks : NaCollect(i)
    \/ \E written \in BOOLEAN : NaWriteOutput(written)

FlNext ==
    \/ FlMainStart
    \/ \E f \in FlFutures : FlCallReturns(f)
    \/ \E f \in FlFutures : FlTake(f)
    \/ FlYieldId
    \/ FlReadRaises
    \/ FlFileEnd
    \/ FlFinish

CcNext ==
    \/ CcYieldRest
    \/ CcYieldChunk
    \/ CcLoopEnds

vars == <<prog, dl_vars, cf_vars, ez_vars, na_vars, fl_vars, cc_vars>>

InitDownloader == prog = "wget_ftp_gb_asm" /\ DLInit /\ CFOff /\ EzOff /\ NaOff
       /\ FlOff /\ CcOff
InitConcat == prog = "concat_fasta" /\ DLOff /\ CFInit /\ EzOff /\ NaOff
       /\ FlOff /\ CcOff
InitEntrez == prog = "dwnld_nt_acc_entrez" /\ DLOff /\ CFOff /\ EzInit /\ NaOff
       /\ FlOff /\ CcOff
InitNuccore == prog = "nuccore2asm_acc" /\ DLOff /\ CFOff /\ EzOff /\ NaInit
       /\ FlOff /\ CcOff
InitFSlink ==
    prog = "get_FSlink" /\ DLOff /\ CFOff /\ EzOff /\ NaOff /\ FlInit /\ CcOff
InitChunk ==
    prog = "concat_clean_fasta" /\ DLOff /\ CFOff /\ EzOff /\ NaOff /\ FlOff /\ CcInit

\* Each script alone, and any one of the scripts.
SpecDownloader == InitDownloader /\ [][DLNext]_vars
SpecConcat == InitConcat /\ [][CFNext]_vars
SpecEntrez == InitEntrez /\ [][EzNext]_vars
SpecNuccore == InitNuccore /\ [][NaNext]_vars
SpecFSlink == InitFSlink /\ [][FlNext]_vars
SpecChunk == InitChunk /\ [][CcNext]_vars

Init ==
    \/ InitDownloader
    \/ InitConcat
    \/ InitEntrez
    \/ InitNuccore
    \/ InitFSlink
    \/ InitChunk
Next == DLNext \/ CFNext \/ EzNext \/ NaNext \/ FlNext \/ CcNext
Spec == Init /\ [][Next]_vars


\* ================================================================== claims

\* C1: a key whose checkpoint record shows the terminal success of the run's mode
\* (download_success in plain mode, decompress_success in decompress mode) is not
\* among the pending paths of a run that starts from that checkpoint; and the
\* concatenator appends nothing, during a run, for a file that the checkpoint
\* listed in processed_files when the run started.
C1_SuccessNeverReprocessed ==
    [][ /\ (run' = run + 1) =>
              \A i \in 1..Len(pending_paths') :
                  ~(/\ ckpt_file.kind = "ok"
                    /\ ckpt_file.jobs[pending_paths'[i]].status = TerminalStatus(decompress'))
        /\ (cf_run' = cf_run) =>
              \A f \in cf_at_start : cf_output_file'[f] = cf_output_file[f] ]_vars

\* A second run has just started and skips a path of the list that the checkpoint
\* shows as successful.
C1_Witness ==
    /\ prog = "wget_ftp_gb_asm"
    /\ run = 2
    /\ mpc = "collect"
    /\ collected = {}
    /\ \A i \in Tasks : task[i].pc = "queued"
    /\ ckpt_file.kind = "ok"
    /\ \E j \in 1..Len(full_paths) :
          /\ ckpt_file.jobs[full_paths[j]].status = TerminalStatus(decompress)
          /\ \A i \in Tasks : pending_paths[i] # full_paths[j]

\* C2: resumability. When a run is killed after N entries of the list had their
\* terminal success completely written to the checkpoint file, the next run with
\* the same list and the same mode processes exactly the other M - N entries.
C2_ResumesWhereKilled ==
    [][ (mpc = "killed" /\ mpc' = "collect" /\ decompress' = decompress) =>
            LET done == {j \in 1..Len(full_paths) :
                            last_good[full_paths[j]].status = TerminalStatus(decompress)}
            IN Len(pending_paths') = Len(full_paths) - Cardinality(done) ]_vars

\* C3: after a concatenator run with more than one worker in which every call
\* returned True, the checkpoint file parses and holds one record per input file.
C3_NoLostRecords ==
    (/\ prog = "concat_fasta"
     /\ cf_mpc = "exit"
     /\ cf_max_workers > 1
     /\ \A f \in CFTasks : cf_task[f].result)
    => /\ cf_checkpoint_file.kind = "ok"
       /\ Cardinality(cf_checkpoint_file.processed_files) = Cardinality(fasta_files)

\* C4: the read-modify-write of the checkpoint is mutually exclusive: while one
\* call is between its read of the checkpoint (line 100) and the end of its
\* write-back (line 108), no other call is.
C4_UpdateIsExclusive ==
    \A f, g \in CFTasks :
        (f # g /\ cf_task[f].pc \in {"write", "dump"}) => cf_task[g].pc \notin {"write", "dump"}

\* C5: crash consistency. When the process is killed during a checkpoint flush, the
\* file is the complete previous state or the complete new state.
C5_FlushIsAtomic ==
    [][ (mpc \in {"dump", "final_dump"} /\ mpc' = "killed") =>
            ckpt_file' \in {flush_from, checkpoint_data} ]_vars

\* C6: loading fails soft. For a missing file and for every unparseable or
\* structurally wrong content the run starts with no record and goes on to
\* process every entry of the list; it does not abort.
C6_LoadFailsSoft ==
    [][ (run' = run + 1 /\ ckpt_file.kind \in {"missing", "corrupt", "noshape"}) =>
            /\ mpc' = "collect"
            /\ checkpoint_data'.jobs = NoJobs
            /\ pending_paths' = full_paths ]_vars

\* C7: when an item is reported complete (counted, progress bar advanced), the
\* checkpoint file holds its outcome.
C7_DurableBeforeReported ==
    [][ (mpc = "count" /\ progress' = progress + 1) =>
            /\ ckpt_file.kind = "ok"
            /\ ckpt_file.jobs[pending_paths[cur]] = ResultOf(cur) ]_vars

\* C8: per-item ordering. pigz runs for an item only after a fetch of that item
\* that exited with status 0 and passed the verification (in this call, or in the
\* call that recorded download_success); a call whose own fetch failed or came
\* back empty never reaches pigz; and a record of success is in the checkpoint
\* file only after the fetch, and one of decompress_success only after the
\* decompression.
C8_FetchBeforeTransform ==
    /\ \A i \in Tasks :
          /\ task[i].pc = "pigz" =>
                /\ pending_paths[i] \in validated
                /\ \/ task[i].wget_rc0 /\ task[i].result = JobRec("download_success", "gz")
                   \/ ~task[i].wget_rc0 /\ task[i].existing.status = "download_success"
          /\ (task[i].pc = "done"
                /\ ResultOf(i).status \in {"decompress_success", "decompress_failed"}) =>
                pending_paths[i] \in validated
    /\ \A k \in Keys :
          /\ ckpt_file.jobs[k].status \in {"download_success", "decompress_success"} =>
                k \in validated
          /\ ckpt_file.jobs[k].status = "decompress_success" => fna[k]

\* pigz runs on a file that this call fetched and verified.
C8_Witness ==
    \E i \in Tasks : task[i].pc = "pigz" /\ task[i].wget_rc0

C10_ZeroByteRejected ==
    [][ /\ \A i \in DOMAIN task \cap DOMAIN task' :
              (/\ task[i].pc = "verify"
               /\ task'[i].pc # "verify"
               /\ gz[pending_paths[i]] \in {"absent", "empty"})
              => /\ task'[i].pc = "done"
                 /\ task'[i].result = JobRec("download_failed", "none")
        /\ \A a \in DOMAIN ez_task \cap DOMAIN ez_task' :
              (/\ ez_task[a].pc = "check"
               /\ ez_task'[a].pc # "check"
               /\ ez_task[a].returncode = 0
               /\ ez_file[a] \in {"absent", "empty"})
              => /\ ez_task'[a].pc = "done"
                 /\ ~ez_task'[a].result
                 /\ ez_file'[a] = "absent" ]_vars

\* A call whose wget exited with status 0 ended with download_failed.
C10_Witness ==
    \E i \in Tasks :
        /\ task[i].pc = "done"
        /\ task[i].wget_rc0
        /\ task[i].result.status = "download_failed"

\* C11: a fetch never leaves a truncated or partial artifact at the destination
\* path: at every point in time (during the fetch, after a failed fetch, after a
\* timeout or a kill) the destination does not exist or holds the complete file.
C11_NoPartialArtifact ==
    /\ \A k \in Keys : gz[k] \in {"absent", "full"}
    /\ \A a \in Accessions : ez_file[a] \in {"absent", "full"}

\* C12: an unexpected exception raised while processing one item becomes a failed
\* outcome of that item only: no exception of a call leaves the result-collection
\* loop and ends the run.
C12_ExceptionBecomesOutcome ==
    mpc # "crashed"

\* C13: bounded retry with N = max_retries = 3. A call whose command failed k < N
\* times and then exited with status 0 returns the parsed result after k + 1
\* commands; a call whose command failed N times returns the failed result after
\* exactly N commands, and the message of line 133 records N; no call ever runs
\* more than N commands.
C13_BoundedRetry ==
    \A i \in NaTasks :
        /\ na_task[i].calls <= max_retries
        /\ (na_task[i].pc = "done" /\ na_task[i].result \in {"found", "notfound"}) =>
              /\ na_task[i].fails < max_retries
              /\ na_task[i].calls = na_task[i].fails + 1
              /\ na_task[i].logged = 0
        /\ (na_task[i].pc = "done" /\ na_task[i].result = "failed") =>
              /\ na_task[i].fails = max_retries
              /\ na_task[i].calls = max_retries
              /\ na_task[i].logged = max_retries
        /\ na_task[i].pc = "done" => na_task[i].result # "none"

\* A call succeeded at its third command, after two failed attempts, and another
\* call failed for good.
C13_Witness ==
    /\ \E i \in NaTasks :
          /\ na_task[i].pc = "done"
          /\ na_task[i].result = "found"
          /\ na_task[i].fails = 2
    /\ \E i \in NaTasks :
          /\ na_task[i].pc = "done"
          /\ na_task[i].result = "failed"

\* C14: the retry policy distinguishes error kinds: a permanent failure (here an
\* accession that is invalid input: the command fails on it at every attempt)
\* is never retried, it causes exactly one attempt.
C14_PermanentNotRetried ==
    \A i \in NaTasks :
        nuccore_accs[i] \in na_malformed => na_task[i].calls <= 1

\* C15: backoff. After every failed attempt number a (1-based), whatever the kind
\* of the failure, the call sleeps 2^(a-1) + 1 seconds before the next attempt
\* (2, 3, 5 seconds for a = 1, 2, 3).
C15_BackoffEveryFailure ==
    \A i \in NaTasks :
        na_task[i].pc = "sleep" =>
            na_task[i].delay = Pow2(na_task[i].fails - 1) + 1

\* C16: an attempt of an external operation that exceeds its per-attempt timeout
\* is a transient failure that triggers a retry within the same run while
\* attempts remain: a task whose first wget attempt timed out is not finished,
\* it goes on to another attempt.
C16_TimeoutTriggersRetry ==
    \A i \in Tasks : task[i].timed_out => task[i].pc # "done"

\* C17: end-to-end retry in the downloader. A run in which the only failures are
\* transient ones (a first wget attempt that timed out, fewer than max_retries
\* failures for the item) does not give up on any item: when it ends, no item is
\* counted or recorded as failed after that single attempt, every pending item
\* is counted as succeeded.
C17_EndToEndRetry ==
    (mpc = "exit" /\ \A i \in Tasks :
                        \/ task[i].timed_out
                        \/ ResultOf(i).status \in {"download_success", "decompress_success"})
       => /\ successful_downloads = Len(pending_paths)
          /\ \A i \in Tasks : ResultOf(i).status # "download_failed"

\* C18: idempotent rerun. When the earlier run fully succeeded (at the start of
\* this run the checkpoint holds every input file), the rerun over the unchanged
\* inputs reports succeeded = 0: every item is skipped, none is counted as a
\* success of this run.
C18_IdempotentRerun ==
    (/\ prog = "concat_fasta"
     /\ cf_mpc = "exit"
     /\ cf_run > 1
     /\ cf_at_start = fasta_files)
    => successful_files = 0

\* C19: destination idempotence check. A destination file that exists and is
\* non-empty is never modified: processing its item returns success without
\* running the fetch, so no step takes the file out of the state "full".
C19_ExistingDestinationKept ==
    [][ \A a \in Accessions : ez_file[a] = "full" => ez_file'[a] = "full" ]_vars

\* C20: within one run at most one task exists per item key, whatever lines the
\* input list holds: no two tasks of a run work on the same path.
C20_OneTaskPerKey ==
    /\ \A i, j \in Tasks : i # j => pending_paths[i] # pending_paths[j]
    /\ \A i, j \in NaTasks : i # j => nuccore_accs[i] # nuccore_accs[j]

\* C21: during a run the in-memory checkpoint map is changed only by the put of
\* the result-collecting loop (main, line 306): no step of a worker task changes
\* the map or a record stored in it.
C21_OnlyPutMutates ==
    [][ (/\ PoolAlive
         /\ mpc' \in {"collect", "dump", "count"}
         /\ run' = run
         /\ checkpoint_data' # checkpoint_data)
        => (mpc = "collect" /\ mpc' \in {"dump", "count"}) ]_vars

\* C22: the number of external operations in flight (wget or pigz subprocesses of
\* the downloader, entrez command pipelines of the resolver) never exceeds the
\* width of the pool, however many items are pending.
C22_PoolWidthBoundsOperations ==
    /\ Cardinality({i \in Tasks : task[i].pc \in {"wget", "pigz"}}) <= max_workers
    /\ Cardinality({i \in NaTasks : na_task[i].pc = "run"}) <= NaPoolWidth

\* The pool is full (as many subprocesses as workers) while another item waits.
C22_Witness ==
    /\ Cardinality({i \in Tasks : task[i].pc \in {"wget", "pigz"}}) = max_workers
    /\ \E i \in Tasks : task[i].pc = "queued"

\* C23: at most once within a run: a run writes at most one terminal-success
\* record per item, so no two collected tasks of a run have both delivered a
\* success outcome for the same path.
C23_AtMostOneSuccessWrite ==
    \A i, j \in collected :
        (i # j /\ pending_paths[i] = pending_paths[j]) =>
            ~ /\ ResultOf(i).status \in {"download_success", "decompress_success"}
              /\ ResultOf(j).status \in {"download_success", "decompress_success"}

\* C24: summary accounting. At the end of every run total = succeeded + failed +
\* skipped, where skipped is the number of input files that the checkpoint
\* already showed as processed when the run started and succeeded and failed
\* count only the files processed in this run.
C24_SummaryAccounting ==
    (prog = "concat_fasta" /\ cf_mpc = "exit") =>
        Cardinality(fasta_files) =
            successful_files + failed_files + Cardinality(fasta_files \cap cf_at_start)

\* C25: the final summary enumerates every failed item: when a run ends, each
\* path whose outcome in this run is a failure is named in the failure list of
\* the summary, and no path whose outcome is a success is named there.
C25_SummaryListsFailures ==
    mpc \in {"final_dump", "exit"} =>
        \A i \in Tasks :
            LET listed == /\ "failed" \in DOMAIN LogSummary
                          /\ pending_paths[i] \in LogSummary.failed
            IN /\ ResultOf(i).status \in
                     {"download_failed", "decompress_failed", "unexpected_error"}
                  => listed
               /\ ResultOf(i).status \in {"download_success", "decompress_success"}
                  => ~listed

\* C26: exit status. The process exits with status 0 only if the failed count of
\* the run is zero: a run that ends with at least one failed file exits non-zero.
C26_ExitStatusReflectsFailures ==
    (prog = "concat_fasta" /\ cf_mpc = "exit" /\ failed_files > 0) => cf_exit_status # 0

\* C27: a failure to write the checkpoint file is run-fatal. When the flush of a
\* record has failed (the file does not hold the in-memory checkpoint after the
\* attempt), the run stops: it does not go on to count the item and collect
\* further ones.
C27_FlushFailureStopsRun ==
    [][ (mpc = "count" /\ ckpt_file # checkpoint_data) => mpc' # "collect" ]_vars

\* C28: no silent omission. At the end of the resolver run every input accession
\* is accounted for, either by a result row or by a reported failure.
C28_NoSilentOmission ==
    na_mpc \in {"exit", "exit1"} =>
        \A i \in NaTasks :
            \/ \E n \in 1..Len(results) : results[n] = nuccore_accs[i]
            \/ na_task[i].logged > 0

\* C28, amended: at the end of the resolver run every input accession has been
\* collected once; it has a result row exactly when its lookup yielded an FTP
\* path, it is reported as failed after max_retries attempts when every attempt
\* failed, and it is left out of the rows without a failure report when the
\* lookup answered without an FTP path.
C28_RowOnlyWithFtpPath ==
    na_mpc \in {"exit", "exit1"} =>
        /\ na_progress = Len(nuccore_accs)
        /\ Len(results) = Cardinality({i \in NaTasks : na_task[i].result = "found"})
        /\ \A n \in 1..Len(results) :
              \E i \in NaTasks : nuccore_accs[i] = results[n] /\ na_task[i].result = "found"
        /\ \A i \in NaTasks :
              /\ na_task[i].result \in {"found", "notfound", "failed"}
              /\ na_task[i].result = "found" =>
                    \E n \in 1..Len(results) : results[n] = nuccore_accs[i]
              /\ na_task[i].result = "failed" => na_task[i].logged = max_retries
              /\ na_task[i].result = "notfound" => na_task[i].logged = 0

\* A run ended with one accession in the rows and another, answered without an
\* FTP path, left out.
C28_Witness ==
    /\ na_mpc = "exit"
    /\ \E i, j \in NaTasks :
          /\ na_task[i].result = "found"
          /\ na_task[j].result = "notfound"
          /\ Len(results) = 1

\* C29: get_FSlink continues after a per-file error. Whatever files raise while
\* they are read, the run is never stuck before its end; when it ends, the pairs
\* of every file that was read without an error have been written exactly once
\* each, every file that raised is named in an error log line, and the progress
\* bar has advanced once per file, failed or not.
C29_ContinuesAfterFileError ==
    /\ fl_mpc = "running" => ENABLED FlNext
    /\ fl_pbar = Cardinality(fl_collected)
    /\ fl_mpc = "exit" =>
          /\ fl_pbar = Len(fl_fasta_files)
          /\ total_ids = Len(fl_rows)
          /\ \A f \in 1..Len(fl_fasta_files) :
                IF fl_fasta_files[f].raises
                THEN f \in fl_errors
                ELSE \A k \in 1..fl_fasta_files[f].headers :
                        Cardinality({n \in 1..Len(fl_rows) : fl_rows[n] = <<f, k>>}) = 1

\* A run ended in which one file raised after some of its headers and another
\* file, with headers, was read to its end.
C29_Witness ==
    /\ fl_mpc = "exit"
    /\ \E f, g \in 1..Len(fl_fasta_files) :
          /\ fl_fasta_files[f].raises
          /\ fl_fasta_files[f].raise_at < fl_fasta_files[f].headers
          /\ ~fl_fasta_files[g].raises
          /\ fl_fasta_files[g].headers > 0
          /\ \E n \in 1..Len(fl_rows) : fl_rows[n] = <<g, 1>>

\* C30: chunk_fasta_content partitions its input without splitting inside a
\* record: for every content and every chunk_size > 0 the chunks yielded, joined
\* in order, are the content when the generator returns, and every chunk after
\* the first starts at a '>' character, or is the rest of the content when the
\* window that starts where it starts holds no '>'.
C30_ChunksPartitionContent ==
    /\ cc_pc = "done" =>
          LET RECURSIVE Joined(_)
              Joined(chunks) ==
                  IF chunks = <<>> THEN <<>>
                  ELSE Head(chunks).text \o Joined(Tail(chunks))
          IN Joined(cc_chunks) = cc_content
    /\ \A n \in 2..Len(cc_chunks) :
          LET c == cc_chunks[n]
          IN \/ c.text # <<>> /\ Head(c.text) = ">"
             \/ /\ rfind(cc_content, ">", c.start, c.start + chunk_size) = -1
                /\ c.text = Slice(cc_content, c.start, Len(cc_content))

\* C31: chunk_fasta_content terminates: every iteration of its loop that does not
\* leave the loop moves start strictly forward, also when the only '>' of the
\* window is at start.
C31_StartStrictlyIncreases ==
    [][ cc_pc' = "while" => cc_start' > cc_start ]_vars

\* C32: exactly-once output of the concatenator. Across the runs that share one
\* checkpoint and one output file, killed and resumed runs included, the output
\* file never holds the sequences of an input file more than once.
C32_AppendedAtMostOnce ==
    \A f \in Files : cf_output_file[f] <= 1

\* C33: a failure of the concatenator leaves the output untouched. Whenever a
\* concat_fasta call of the first run (which starts from an empty output file)
\* has returned False for a file, none of that file's sequences are in the
\* output file, under every interleaving of the worker threads.
C33_FailedFileNotAppended ==
    \A f \in CFTasks :
        (cf_run = 1 /\ cf_task[f].pc = "done" /\ ~cf_task[f].result)
            => cf_output_file[f] = 0

\* C34: checkpoint soundness of the concatenator. Whenever the checkpoint file
\* holds a processed_files object, every file recorded in it, and every file in
\* the copy a worker is about to write, has its sequences in the output file:
\* the append came before the entry.
C34_RecordedFilesAreAppended ==
    /\ cf_checkpoint_file.kind = "ok"
           => \A f \in cf_checkpoint_file.processed_files : cf_output_file[f] >= 1
    /\ \A g \in CFTasks :
           cf_task[g].pc \in {"write", "dump"}
               => \A f \in cf_task[g].checkpoints : cf_output_file[f] >= 1

\* C34 witness: a second run starts on a checkpoint that records every input
\* file of a two-file input.
C34_Witness ==
    /\ cf_run = 2
    /\ cf_mpc = "running"
    /\ cf_checkpoint_file.kind = "ok"
    /\ cf_checkpoint_file.processed_files = fasta_files
    /\ Cardinality(fasta_files) = 2

\* C35: the downloader never fetches a fetched item again. A step that launches
\* wget for a path is taken only while the record of that path is neither
\* download_success nor decompress_success, in either mode; a plain-mode call
\* for a path recorded as decompress_success returns at once with the record
\* itself, touches no file, and no step of a plain-mode run that goes on changes
\* that record.
C35_NoRefetchOfFetched ==
    [][ /\ \A i \in Tasks :
              (i \in DOMAIN task' /\ task[i].pc = "queued" /\ task'[i].pc = "wget")
                  => checkpoint_data.jobs[pending_paths[i]].status
                         \notin {"download_success", "decompress_success"}
        /\ \A i \in Tasks :
              ( /\ ~decompress
                /\ i \in DOMAIN task'
                /\ task[i].pc = "queued" /\ task'[i].pc # "queued"
                /\ checkpoint_data.kind = "ok"
                /\ checkpoint_data.jobs[pending_paths[i]].status = "decompress_success" )
                  => /\ task'[i].pc = "done"
                     /\ gz' = gz /\ fna' = fna
                     /\ ResultOf(i)' = checkpoint_data.jobs[pending_paths[i]]
        /\ \A k \in Keys :
              ( /\ ~decompress /\ PoolAlive /\ mpc' # "killed" /\ run' = run
                /\ checkpoint_data.kind = "ok"
                /\ checkpoint_data.jobs[k].status = "decompress_success" )
                  => checkpoint_data'.jobs[k] = checkpoint_data.jobs[k]
      ]_vars

\* C35 witness: in a plain-mode second run a call for a path recorded as
\* decompress_success has returned, and its result was stored.
C35_Witness ==
    /\ run = 2
    /\ ~decompress
    /\ \E i \in Tasks :
          /\ i \in collected
          /\ task[i].aliased
          /\ checkpoint_data.jobs[pending_paths[i]] = JobRec("decompress_success", "fna")

\* C36: frame condition of the downloader. Storing the result of one call
\* changes the record of that call's path only, and the final save of a run that
\* was not interrupted and recorded at least one result leaves on disk, for
\* every path that was not pending in the run, the record the checkpoint file
\* held before the save.
C36_OtherKeysUnchanged ==
    [][ /\ \A i \in Tasks :
              (mpc = "collect" /\ cur' = i /\ mpc' \in {"dump", "count"})
                  => \A k \in Keys \ {pending_paths[i]} :
                         checkpoint_data'.jobs[k] = checkpoint_data.jobs[k]
        /\ (mpc = "final_dump" /\ mpc' = "exit" /\ collected # {})
              => \A k \in Keys \ {pending_paths[i] : i \in Tasks} :
                     (flush_from.kind = "ok" /\ flush_from.jobs[k] # Absent)
                         => /\ ckpt_file'.kind = "ok"
                            /\ ckpt_file'.jobs[k] = flush_from.jobs[k]
      ]_vars

\* C37: completeness of the downloader. When a run has ended without being
\* killed, every path of the input list has a record in the checkpoint, and the
\* status of that record is one of the five statuses the calls return.
C37_EveryPathRecorded ==
    mpc \in {"exit", "aborted", "crashed"}
        => \A j \in 1..Len(full_paths) :
               checkpoint_data.jobs[full_paths[j]].status
                   \in {"download_success", "download_failed", "decompress_success",
                        "decompress_failed", "unexpected_error"}

\* C38: postcondition of download_sequence. Once a call has returned, the file
\* <output_folder>/<accession>.fasta exists exactly when the call returned True,
\* and a file that exists is not empty (it holds the complete output of an
\* efetch that exited with status 0); a call that returned False left no file,
\* not even one an earlier run had left.
C38_FileIffTrue ==
    \A a \in EzTasks :
        ez_task[a].pc = "done"
            => /\ ez_task[a].result <=> ez_file[a] # "absent"
               /\ ez_file[a] # "absent" => ez_file[a] = "full"

\* C38 witness: of two calls that have returned, one returned True and its file
\* is there, the other returned False after efetch had written into its file.
C38_Witness ==
    \E a, b \in EzTasks :
        /\ ez_task[a].pc = "done" /\ ez_task[a].result /\ ez_file[a] = "full"
        /\ ez_task[b].pc = "done" /\ ~ez_task[b].result /\ ez_file[b] = "absent"
        /\ ez_task[b].returncode # 0

\* C39: result pairing of the converter. Whatever the order in which the lookups
\* complete, every row of the results has as nt_acc the accession that was
\* submitted for the lookup whose tuple the row holds, that lookup returned an
\* FTP path, and no lookup gives more than one row.
C39_RowsPairedWithSubmitted ==
    /\ Len(na_row_future) = Len(results)
    /\ \A r \in 1..Len(results) :
          /\ na_row_future[r] \in na_collected
          /\ results[r] = nuccore_accs[na_row_future[r]]
          /\ na_task[na_row_future[r]].result = "found"
    /\ \A r, q \in 1..Len(results) : na_row_future[r] = na_row_future[q] => r = q

\* C39 witness: two lookups of different accessions completed in the reverse of
\* their input order and every row was written.
C39_Witness ==
    /\ na_mpc = "exit"
    /\ nuccore_accs = <<1, 2>>
    /\ na_row_future = <<2, 1>>
    /\ results = <<2, 1>>

====
